---- MODULE Spec2Model ----
(***************************************************************************)
(* Analysis Request Coordinator of the lingo server:                       *)
(*   server/src/session-cache.ts  per-session cache, in-flight registry,   *)
(*                                recent prompts, idle-session cleanup     *)
(*   server/src/index.ts          POST /prompt handler                     *)
(*   server/src/analyzer.ts       analysis queue and background processor  *)
(*                                (second revision in the file, l.392-689) *)
(*   server/src/claude.ts         queryClaudeAI and withRetry              *)
(* Time is Date.now() in milliseconds.  Promises are modelled by the       *)
(* states of the upstream calls and by the position (pc) of each handler   *)
(* that awaits one.                                                        *)
(***************************************************************************)
EXTENDS Integers, Sequences, FiniteSets, TLC

\* ------------------------------------------------------------------ bounds
MaxReqs == 2             \* POST /prompt requests per behaviour (request model)
MaxItems == 3            \* POST /prompt requests per behaviour (queue model)
MaxMixed == 2            \* POST /prompt requests per behaviour (whole model)
MaxDrains == 1           \* waitForQueueDrain invocations per behaviour
QueueBatchSize == 2      \* config.queueBatchSize
NumRecentTexts == 7      \* distinct texts of the recency model
MaxPushes == 8           \* addRecentPrompt calls per behaviour (recency model)
MaxTicks == 1            \* clock advances per behaviour
MaxRetryLimit == 3       \* largest maxRetries option of the retry model
MaxModeReqs == 2         \* POST /prompt requests per behaviour (mode model)
MaxCorrections == 1      \* correction results held at once (mixed cache model)
MaxStallReqs == 2        \* POST /prompt requests per behaviour (two-session model)
MaxSessionReqs == 3      \* POST /prompt requests per behaviour (one-session model)

\* ------------------------------------------------- program constants (ms)
CACHE_TTL_MS == 300000
SESSION_MAX_AGE_MS == 1800000
MAX_RECENT_PROMPTS == 5
MAX_CACHE_SIZE_PER_SESSION == 100

\* withRetry options: the defaults and those of analyzePrompt
DEFAULT_BASE_DELAY_MS == 1000
DEFAULT_MAX_DELAY_MS == 10000
ANALYZE_MAX_RETRIES == 2
ANALYZE_BASE_DELAY_MS == 500

NULL == 0

SessionIds == {"s1", "s2"}
Prompts == {1, 2}
\* the options withRetry is called with: maxRetries, baseDelayMs, maxDelayMs
RetryLimits == 0..MaxRetryLimit
BaseDelays == {ANALYZE_BASE_DELAY_MS, DEFAULT_BASE_DELAY_MS}
DelayCaps == {DEFAULT_BASE_DELAY_MS, DEFAULT_MAX_DELAY_MS}
\* clock advances that land on and just past the two age thresholds
TickSteps == {CACHE_TTL_MS, CACHE_TTL_MS + 1, SESSION_MAX_AGE_MS + 1}

VARIABLES
  sessions,             \* Map<string, SessionData>
  sessionLastActivity,  \* Map<string, number>
  now,                  \* Date.now()
  ticks,                \* number of clock advances so far
  mode,                 \* config.mode
  reqs,                 \* POST /prompt handler invocations, in arrival order
  calls,                \* analyzePrompt promises, in creation order
  prompts,              \* rows written by insertPrompt (by originating call)
  analysisQueue,        \* QueuedPrompt[]
  isProcessing,
  processingInterval,   \* "null", "armed" (timer pending) or "fired" (stale handle)
  shutdownRequested,
  currentProcessingPromise,  \* "null", "current" (pending run) or "settled"
  batch,                \* processQueue: the spliced batch
  record,               \* processQueue: index in batch of the record awaited
  drains,               \* waitForQueueDrain invocations
  lastStore,            \* history: per session, the last cacheResult call
  requeued,             \* history: ids of the items the last run put back
  pushed,               \* history: texts handed to recentPrompts, newest first
  retry                 \* one withRetry invocation: its loop state and attempts

cacheVars == <<sessions, sessionLastActivity>>
clockVars == <<now, ticks>>
queueVars == <<analysisQueue, isProcessing, processingInterval, shutdownRequested,
               currentProcessingPromise, batch, record, drains>>
histVars == <<lastStore, requeued, pushed>>
retryVars == <<retry>>
\* everything but the withRetry invocation
coordVars == <<sessions, sessionLastActivity, now, ticks, mode, reqs, calls, prompts,
               analysisQueue, isProcessing, processingInterval, shutdownRequested,
               currentProcessingPromise, batch, record, drains,
               lastStore, requeued, pushed>>
vars == <<sessions, sessionLastActivity, now, ticks, mode, reqs, calls, prompts,
          analysisQueue, isProcessing, processingInterval, shutdownRequested,
          currentProcessingPromise, batch, record, drains,
          lastStore, requeued, pushed, retry>>

\* --------------------------------------------------------- AnalysisResult
SkipResult(p) ==
  [skip |-> TRUE, hasCorrection |-> FALSE, correction |-> NULL,
   explanation |-> "", alternative |-> NULL, originalPrompt |-> p]

CorrectionResult(p, b) ==
  [skip |-> FALSE, hasCorrection |-> TRUE, correction |-> b,
   explanation |-> "note", alternative |-> NULL, originalPrompt |-> p]

AlternativeResult(p) ==
  [skip |-> FALSE, hasCorrection |-> FALSE, correction |-> NULL,
   explanation |-> "note", alternative |-> 0 - p, originalPrompt |-> p]

ParseFailedResult(p) ==
  [skip |-> FALSE, hasCorrection |-> FALSE, correction |-> NULL,
   explanation |-> "Failed to analyze the text.", alternative |-> NULL,
   originalPrompt |-> p]

NoResult == SkipResult(NULL)

\* the values executeAnalysis can return for prompt p, corrections drawn from B
AnalysisResults(p, B) ==
  {SkipResult(p), AlternativeResult(p), ParseFailedResult(p)}
    \cup {CorrectionResult(p, b) : b \in B}

\* the results the request handler tells apart (it reads skip, hasCorrection
\* and correction only)
RequestResults(p) == AnalysisResults(p, Prompts) \ {ParseFailedResult(p)}

\* ------------------------------------------------------ Map<string, ...>
MapRemove(f, k) == [x \in (DOMAIN f) \ {k} |-> f[x]]
MapSet(f, k, v) == [x \in (DOMAIN f) \cup {k} |-> IF x = k THEN v ELSE f[x]]
EmptyMap == <<>>

\* session.cache is a Map in insertion order: a sequence of entries
HasKey(cache, k) == \E i \in 1..Len(cache) : cache[i].key = k
KeyIndex(cache, k) == CHOOSE i \in 1..Len(cache) : cache[i].key = k
CacheKeys(cache) == {cache[i].key : i \in 1..Len(cache)}
CacheDelete(cache, k) == SelectSeq(cache, LAMBDA e : e.key # k)
CacheSet(cache, k, res, ts) ==
  LET e == [key |-> k, result |-> res, timestamp |-> ts]
  IN IF HasKey(cache, k) THEN [cache EXCEPT ![KeyIndex(cache, k)] = e]
     ELSE Append(cache, e)

NewSession == [cache |-> <<>>, inFlight |-> EmptyMap, recentPrompts |-> <<>>]

\* A store is the pair of module-level maps of session-cache.ts
Store(ss, la) == [sessions |-> ss, sessionLastActivity |-> la]

GetOrCreateSession(st, sid, t) ==
  Store(IF sid \in DOMAIN st.sessions THEN st.sessions
        ELSE MapSet(st.sessions, sid, NewSession),
        MapSet(st.sessionLastActivity, sid, t))

\* getCachedResult that reports an expired entry absent but leaves it in place
GetCachedResultKeepsExpired(ss, sid, prompt, t) ==
  IF sid \notin DOMAIN ss \/ ~HasKey(ss[sid].cache, prompt)
    THEN [sessions |-> ss, hit |-> FALSE, result |-> NoResult]
  ELSE LET cached == ss[sid].cache[KeyIndex(ss[sid].cache, prompt)]
       IN IF t - cached.timestamp > CACHE_TTL_MS
            THEN [sessions |-> ss, hit |-> FALSE, result |-> NoResult]
            ELSE [sessions |-> ss, hit |-> TRUE, result |-> cached.result]

\* getCachedResult: [sessions, hit, result]
GetCachedResult(ss, sid, prompt, t) ==
  IF sid \notin DOMAIN ss THEN [sessions |-> ss, hit |-> FALSE, result |-> NoResult]
  ELSE IF ~HasKey(ss[sid].cache, prompt)
    THEN [sessions |-> ss, hit |-> FALSE, result |-> NoResult]
  ELSE LET cached == ss[sid].cache[KeyIndex(ss[sid].cache, prompt)]
       IN IF t - cached.timestamp > CACHE_TTL_MS
            THEN [sessions |-> [ss EXCEPT ![sid].cache = CacheDelete(@, prompt)],
                  hit |-> FALSE, result |-> NoResult]
            ELSE [sessions |-> ss, hit |-> TRUE, result |-> cached.result]

EntriesToRemove == (MAX_CACHE_SIZE_PER_SESSION + 9) \div 10

\* an eviction that drops the newest entries instead of the oldest
EvictNewest(cache) ==
  IF Len(cache) >= MAX_CACHE_SIZE_PER_SESSION
    THEN SubSeq(cache, 1, Len(cache) - EntriesToRemove)
    ELSE cache

\* session.cache.keys() yields the keys in insertion order: the first
\* entriesToRemove entries go
Evict(cache) ==
  IF Len(cache) >= MAX_CACHE_SIZE_PER_SESSION
    THEN SubSeq(cache, EntriesToRemove + 1, Len(cache))
    ELSE cache

\* cacheResult without the skip entry for the corrected text
SeedCorrectionOmitted(cache, result, t) == cache

\* session-cache.ts 90-105
SeedCorrection(cache, result, t) ==
  IF result.hasCorrection /\ result.correction # NULL
    THEN CacheSet(cache, result.correction, SkipResult(result.correction), t)
    ELSE cache

CacheResult(st, sid, prompt, result, t) ==
  LET s1 == GetOrCreateSession(st, sid, t)
      c1 == Evict(s1.sessions[sid].cache)
      c2 == CacheSet(c1, prompt, result, t)
      c3 == SeedCorrection(c2, result, t)
  IN Store([s1.sessions EXCEPT ![sid].cache = c3], s1.sessionLastActivity)

\* a registry keyed by the prompt alone: the call registered by any session
GetInFlightRequestAnySession(ss, sid, prompt) ==
  IF \E c \in DOMAIN ss : prompt \in DOMAIN ss[c].inFlight
    THEN ss[CHOOSE c \in DOMAIN ss : prompt \in DOMAIN ss[c].inFlight].inFlight[prompt]
  ELSE NULL

\* getInFlightRequest: the registered call, NULL when there is none
GetInFlightRequest(ss, sid, prompt) ==
  IF sid \notin DOMAIN ss THEN NULL
  ELSE IF prompt \in DOMAIN ss[sid].inFlight THEN ss[sid].inFlight[prompt]
  ELSE NULL

SetInFlightRequest(st, sid, prompt, promise, t) ==
  LET s1 == GetOrCreateSession(st, sid, t)
  IN Store([s1.sessions EXCEPT ![sid].inFlight = MapSet(@, prompt, promise)],
           s1.sessionLastActivity)

ClearInFlightRequest(ss, sid, prompt) ==
  IF sid \in DOMAIN ss
    THEN [ss EXCEPT ![sid].inFlight = MapRemove(@, prompt)]
    ELSE ss

Unshift(seq, x) == <<x>> \o seq

\* addRecentPrompt without the check against the most recent prompt
AddRecentPromptNoDuplicateCheck(st, sid, prompt, correctedPrompt, t) ==
  LET s1 == GetOrCreateSession(st, sid, t)
      textToAdd == IF correctedPrompt # NULL THEN correctedPrompt ELSE prompt
      added == Unshift(s1.sessions[sid].recentPrompts, textToAdd)
      trimmed == IF Len(added) > MAX_RECENT_PROMPTS
                   THEN SubSeq(added, 1, Len(added) - 1) ELSE added
  IN Store([s1.sessions EXCEPT ![sid].recentPrompts = trimmed],
           s1.sessionLastActivity)

AddRecentPrompt(st, sid, prompt, correctedPrompt, t) ==
  LET s1 == GetOrCreateSession(st, sid, t)
      textToAdd == IF correctedPrompt # NULL THEN correctedPrompt ELSE prompt
      rp == s1.sessions[sid].recentPrompts
      added == Unshift(rp, textToAdd)
      trimmed == IF Len(added) > MAX_RECENT_PROMPTS
                   THEN SubSeq(added, 1, Len(added) - 1) ELSE added
  IN IF Len(rp) > 0 /\ rp[1] = textToAdd THEN s1
     ELSE Store([s1.sessions EXCEPT ![sid].recentPrompts = trimmed],
                s1.sessionLastActivity)

GetRecentPrompts(ss, sid, excludePrompt) ==
  IF sid \notin DOMAIN ss THEN <<>>
  ELSE IF excludePrompt # NULL
    THEN SelectSeq(ss[sid].recentPrompts, LAMBDA p : p # excludePrompt)
    ELSE ss[sid].recentPrompts

\* a sweep that deletes the session and leaves its timestamp behind
CleanupSessionsKeepsActivity(st, t) ==
  LET old == {sid \in DOMAIN st.sessionLastActivity :
                t - st.sessionLastActivity[sid] > SESSION_MAX_AGE_MS}
  IN Store([sid \in (DOMAIN st.sessions) \ old |-> st.sessions[sid]],
           st.sessionLastActivity)

CleanupSessions(st, t) ==
  LET old == {sid \in DOMAIN st.sessionLastActivity :
                t - st.sessionLastActivity[sid] > SESSION_MAX_AGE_MS}
  IN Store([sid \in (DOMAIN st.sessions) \ old |-> st.sessions[sid]],
           [sid \in (DOMAIN st.sessionLastActivity) \ old |->
              st.sessionLastActivity[sid]])

\* ------------------------------------------------- POST /prompt (index.ts)
Pending == [success |-> FALSE, result |-> NoResult]
Success(result) == [success |-> TRUE, result |-> result]
Failure == [success |-> FALSE, result |-> NoResult]

\* origin: NULL for a call of the request handler, else the queued item's id
NewCall(sid, p, origin, context) ==
  [sid |-> sid, prompt |-> p, origin |-> origin, status |-> "pending",
   result |-> NoResult, context |-> context]

\* index.ts 294-335: the calls the handler makes, in program order, up to its
\* first await (or up to its response, when it never awaits)
ArrivalSteps(pc, lookup) ==
  IF lookup = "silent" THEN <<"queuePromptForAnalysis", "addRecentPrompt">>
  ELSE IF pc = "done" THEN <<"getCachedResult">>
  ELSE IF pc = "awaitInFlight"
    THEN <<"getCachedResult", "getInFlightRequest", "await">>
  ELSE <<"getCachedResult", "getInFlightRequest", "getRecentPrompts",
         "analyzePrompt", "setInFlightRequest", "await">>

\* lookup, during and seeded are history: what getCachedResult found, the
\* requests for the same (session, prompt) in progress at arrival, and whether
\* the session's last cacheResult call stored a correction to this very prompt
\* less than the TTL ago
NewReq(sid, p, pc, call, owner, resp, lookup) ==
  [sid |-> sid, prompt |-> p, pc |-> pc, call |-> call, owner |-> owner,
   resp |-> resp, lookup |-> lookup,
   during |-> {i \in 1..Len(reqs) : /\ reqs[i].sid = sid
                                     /\ reqs[i].prompt = p
                                     /\ reqs[i].pc # "done"},
   seeded |-> /\ lookup # "silent"
              /\ sid \in DOMAIN lastStore
              /\ lastStore[sid].result.hasCorrection
              /\ lastStore[sid].result.correction = p
              /\ now - lastStore[sid].time <= CACHE_TTL_MS]

\* what getCachedResult finds for (sid, p): "absent", "fresh" or "expired"
LookupKind(ss, sid, p, t) ==
  IF sid \notin DOMAIN ss \/ ~HasKey(ss[sid].cache, p) THEN "absent"
  ELSE IF t - ss[sid].cache[KeyIndex(ss[sid].cache, p)].timestamp > CACHE_TTL_MS
    THEN "expired" ELSE "fresh"

\* index.ts 302-328: the handler up to its first await
PromptRequest(sid, p, cap) ==
  /\ mode # "silent"
  /\ Len(reqs) < cap
  /\ LET kind == LookupKind(sessions, sid, p, now)
         cachedResult == GetCachedResult(sessions, sid, p, now)
         inFlight == GetInFlightRequest(cachedResult.sessions, sid, p)
         recentPrompts == GetRecentPrompts(cachedResult.sessions, sid, p)
         analysisPromise == Len(calls) + 1
         registered == SetInFlightRequest(
                         Store(cachedResult.sessions, sessionLastActivity),
                         sid, p, analysisPromise, now)
     IN IF cachedResult.hit
          THEN /\ reqs' = Append(reqs, NewReq(sid, p, "done", NULL, FALSE,
                                              Success(cachedResult.result), kind))
               /\ sessions' = cachedResult.sessions
               /\ UNCHANGED <<sessionLastActivity, calls>>
        ELSE IF inFlight # NULL
          THEN /\ reqs' = Append(reqs, NewReq(sid, p, "awaitInFlight", inFlight,
                                              FALSE, Pending, kind))
               /\ sessions' = cachedResult.sessions
               /\ UNCHANGED <<sessionLastActivity, calls>>
        ELSE /\ calls' = Append(calls, NewCall(sid, p, NULL, recentPrompts))
             /\ reqs' = Append(reqs, NewReq(sid, p, "awaitAnalysis",
                                            analysisPromise, TRUE, Pending, kind))
             /\ sessions' = registered.sessions
             /\ sessionLastActivity' = registered.sessionLastActivity
  /\ UNCHANGED retryVars
  /\ UNCHANGED <<now, ticks, mode, prompts, queueVars, histVars>>

\* the outcome of the retry-wrapped upstream call k
Fulfil(k, result) == [calls EXCEPT ![k].status = "fulfilled", ![k].result = result]
Reject(k) == [calls EXCEPT ![k].status = "rejected"]

\* index.ts 340: the text handed to addRecentPrompt
CorrectedText(result) == IF result.hasCorrection THEN result.correction ELSE NULL

\* index.ts 337-341: write-through after a successful analysis
WriteThrough(st, sid, p, result, t) ==
  AddRecentPrompt(CacheResult(st, sid, p, result, t), sid, p,
                  CorrectedText(result), t)

\* index.ts 344: the result is worth saving
WorthSaving(result) == ~result.skip

\* index.ts 311-315: when call k settles, the requests awaiting it resume in
\* the order they began to await: request i, which issued the call, first,
\* then every request that found the promise in flight, all before any other
\* task runs
Respond(i, k, resp) ==
  [j \in 1..Len(reqs) |->
     IF j = i \/ (reqs[j].pc = "awaitInFlight" /\ reqs[j].call = k)
       THEN [reqs[j] EXCEPT !.pc = "done", !.resp = resp]
       ELSE reqs[j]]

\* insertPrompt(row of call k): the row is written, or the write throws
Persist(ps, k, persisted) == IF persisted THEN ps \cup {k} ELSE ps

\* a response that reports the failure of the write
ResponseAfterPersistPropagates(result, persisted) ==
  IF persisted THEN Success(result) ELSE Failure

\* index.ts 345-371: the write runs in a setImmediate callback, inside its own
\* try/catch, after the response was built from the result
ResponseAfterPersist(result, persisted) == Success(result)

\* a continuation that writes the outcome before it clears the handle
ContinuationStepsWriteFirst(fulfilled) ==
  IF fulfilled THEN <<"cacheResult", "addRecentPrompt", "clearInFlightRequest">>
  ELSE <<"clearInFlightRequest">>

\* index.ts 330-341: the calls the handler makes once the awaited analysis has
\* settled, in program order: the finally block runs first, and the two
\* writes only follow when the await did not throw
ContinuationSteps(fulfilled) ==
  IF fulfilled THEN <<"clearInFlightRequest", "cacheResult", "addRecentPrompt">>
  ELSE <<"clearInFlightRequest">>

\* one call of the continuation applied to the session store
ApplyStep(step, st, sid, p, result, t) ==
  IF step = "clearInFlightRequest"
    THEN Store(ClearInFlightRequest(st.sessions, sid, p), st.sessionLastActivity)
  ELSE IF step = "cacheResult" THEN CacheResult(st, sid, p, result, t)
  ELSE AddRecentPrompt(st, sid, p, CorrectedText(result), t)

RECURSIVE RunSteps(_, _, _, _, _, _)
\* the calls of the continuation applied one after the other
RunSteps(steps, st, sid, p, result, t) ==
  IF steps = <<>> THEN st
  ELSE RunSteps(Tail(steps), ApplyStep(Head(steps), st, sid, p, result, t),
                sid, p, result, t)

\* the calls the handler of request r has made so far, in program order: r
\* suspended at its await when it issued a call or found one in flight, and
\* has run its continuation when it issued the call and is done
StepsOf(r, cs) ==
  ArrivalSteps(IF r.owner THEN "awaitAnalysis"
               ELSE IF r.call # NULL THEN "awaitInFlight" ELSE "done", r.lookup)
    \o (IF r.owner /\ r.pc = "done"
          THEN ContinuationSteps(cs[r.call].status = "fulfilled") ELSE <<>>)

\* index.ts 330-371: the analysis of request i is fulfilled and the request
\* resumes; persisted tells whether insertPrompt returns or throws
AnalysisCompletes(i, result, persisted) ==
  /\ i \in 1..Len(reqs)
  /\ reqs[i].pc = "awaitAnalysis"
  /\ LET r == reqs[i]
         written == RunSteps(ContinuationSteps(TRUE),
                             Store(sessions, sessionLastActivity),
                             r.sid, r.prompt, result, now)
     IN /\ calls' = Fulfil(r.call, result)
        /\ sessions' = written.sessions
        /\ sessionLastActivity' = written.sessionLastActivity
        /\ reqs' = Respond(i, r.call,
                           IF WorthSaving(result)
                             THEN ResponseAfterPersist(result, persisted)
                             ELSE Success(result))
        /\ lastStore' = MapSet(lastStore, r.sid,
                               [prompt |-> r.prompt, result |-> result, time |-> now])
        /\ prompts' = IF WorthSaving(result)
                         THEN Persist(prompts, r.call, persisted) ELSE prompts
  /\ UNCHANGED retryVars
  /\ UNCHANGED <<now, ticks, mode, queueVars, requeued, pushed>>

\* the analysis is fulfilled and the durable store takes the row
AnalysisFulfilled(i, result) == AnalysisCompletes(i, result, TRUE)

\* the analysis is fulfilled and insertPrompt throws
AnalysisFulfilledPersistFails(i, result) ==
  /\ WorthSaving(result)
  /\ AnalysisCompletes(i, result, FALSE)

\* index.ts 330-335, 372-375: the analysis of request i is rejected (retries
\* exhausted) and the request resumes
AnalysisRejected(i) ==
  /\ i \in 1..Len(reqs)
  /\ reqs[i].pc = "awaitAnalysis"
  /\ calls' = Reject(reqs[i].call)
  /\ sessions' = RunSteps(ContinuationSteps(FALSE),
                          Store(sessions, sessionLastActivity),
                          reqs[i].sid, reqs[i].prompt, NoResult, now).sessions
  /\ reqs' = Respond(i, reqs[i].call, Failure)
  /\ UNCHANGED retryVars
  /\ UNCHANGED <<sessionLastActivity, now, ticks, mode, prompts, queueVars, histVars>>

\* setInterval(cleanupSessions): a sweep that removes something
Sweep ==
  /\ LET swept == CleanupSessions(Store(sessions, sessionLastActivity), now)
     IN /\ swept.sessions # sessions \/ swept.sessionLastActivity # sessionLastActivity
        /\ sessions' = swept.sessions
        /\ sessionLastActivity' = swept.sessionLastActivity
  /\ UNCHANGED retryVars
  /\ UNCHANGED <<now, ticks, mode, reqs, calls, prompts, queueVars, histVars>>

\* Date.now() advances; only differences of timestamps are ever read, so time
\* that passes before any session exists is not modelled
Tick(d) ==
  /\ ticks < MaxTicks
  /\ DOMAIN sessionLastActivity # {}
  /\ now' = now + d
  /\ ticks' = ticks + 1
  /\ UNCHANGED retryVars
  /\ UNCHANGED <<sessions, sessionLastActivity, mode, reqs, calls, prompts, queueVars,
                 histVars>>

\* ------------------------------------------- analysis queue (analyzer.ts)
\* index.ts 294-299: silent mode queues the prompt and responds at once
QueuedPrompt(id, sid, p) == [id |-> id, sid |-> sid, prompt |-> p]

\* a queue that takes new items at its head
QueuePromptAtFront(queue, data) == <<data>> \o queue

QueuePromptForAnalysis(queue, data) == Append(queue, data)

GetPendingQueueCount == Len(analysisQueue)

PromptSilent(sid, p, cap) ==
  /\ mode = "silent"
  /\ Len(reqs) < cap
  /\ analysisQueue' = QueuePromptForAnalysis(analysisQueue,
                                             QueuedPrompt(Len(reqs) + 1, sid, p))
  /\ LET added == AddRecentPrompt(Store(sessions, sessionLastActivity),
                                  sid, p, NULL, now)
     IN /\ sessions' = added.sessions
        /\ sessionLastActivity' = added.sessionLastActivity
  /\ reqs' = Append(reqs, NewReq(sid, p, "done", NULL, FALSE,
                                 Success(NoResult), "silent"))
  /\ UNCHANGED retryVars
  /\ UNCHANGED <<now, ticks, mode, calls, prompts, isProcessing,
                 processingInterval, shutdownRequested,
                 currentProcessingPromise, batch, record, drains, histVars>>

\* config hot reload changes config.mode ("block" behaves as "non-block" here)
ReloadConfig ==
  /\ mode' = IF mode = "silent" THEN "non-block" ELSE "silent"
  /\ UNCHANGED retryVars
  /\ UNCHANGED <<sessions, sessionLastActivity, now, ticks, reqs, calls, prompts,
                 queueVars, histVars>>

\* scheduleNextRun without the shutdownRequested check
ScheduleNextRunUnguarded(shutdown, interval) == "armed"

\* scheduleNextRun: the timer handle it leaves in processingInterval
ScheduleNextRun(shutdown, interval) == IF shutdown THEN interval ELSE "armed"

\* the timer callback without its await: the next timer is armed at once
AwaitRunSkipped(runPending, shutdown) == ScheduleNextRun(shutdown, "fired")

\* a timer callback that never arms the next timer
AwaitRunNoReschedule(runPending, shutdown) == "fired"

\* the timer callback: await currentProcessingPromise; scheduleNextRun().
\* While the run is pending the callback is suspended and the handle is the
\* fired timer's; otherwise scheduleNextRun runs in the same task
AwaitRun(runPending, shutdown) ==
  IF runPending THEN "fired" ELSE ScheduleNextRun(shutdown, "fired")

StartBackgroundProcessor ==
  /\ processingInterval = "null"
  /\ processingInterval' = ScheduleNextRun(shutdownRequested, processingInterval)
  /\ processingInterval' # processingInterval
  /\ UNCHANGED retryVars
  /\ UNCHANGED <<sessions, sessionLastActivity, now, ticks, mode, reqs, calls,
                 prompts, analysisQueue, isProcessing, shutdownRequested,
                 currentProcessingPromise, batch, record, drains, histVars>>

\* a splice that takes the newest items of the queue
SpliceFromTail(queue, n) ==
  [batch |-> SubSeq(queue, (IF Len(queue) < n THEN 0 ELSE Len(queue) - n) + 1,
                    Len(queue)),
   rest |-> SubSeq(queue, 1, IF Len(queue) < n THEN 0 ELSE Len(queue) - n)]

\* analysisQueue.splice(0, batchSize)
Splice(queue, n) ==
  [batch |-> SubSeq(queue, 1, IF Len(queue) < n THEN Len(queue) ELSE n),
   rest |-> SubSeq(queue, (IF Len(queue) < n THEN Len(queue) ELSE n) + 1, Len(queue))]

\* the setTimeout callback runs: processQueue() up to its first await
TimerFires ==
  /\ processingInterval = "armed"
  /\ IF isProcessing \/ shutdownRequested
       THEN /\ currentProcessingPromise' = "settled"
            /\ processingInterval' = AwaitRun(FALSE, shutdownRequested)
            /\ UNCHANGED <<analysisQueue, isProcessing, batch, record, calls>>
     ELSE LET taken == Splice(analysisQueue, QueueBatchSize)
          IN IF taken.batch = <<>>
               THEN /\ currentProcessingPromise' = "settled"
                    /\ processingInterval' = AwaitRun(FALSE, shutdownRequested)
                    /\ UNCHANGED <<analysisQueue, isProcessing, batch, record, calls>>
               ELSE /\ isProcessing' = TRUE
                    /\ analysisQueue' = taken.rest
                    /\ batch' = taken.batch
                    /\ record' = 1
                    /\ calls' = Append(calls, NewCall(taken.batch[1].sid,
                                         taken.batch[1].prompt, taken.batch[1].id, <<>>))
                    /\ currentProcessingPromise' = "current"
                    /\ processingInterval' = AwaitRun(TRUE, shutdownRequested)
  /\ UNCHANGED retryVars
  /\ UNCHANGED <<sessions, sessionLastActivity, now, ticks, mode, reqs, prompts,
                 shutdownRequested, drains, histVars>>

\* the pending call of the record the batch run awaits
BatchCall == CHOOSE k \in 1..Len(calls) :
  calls[k].origin = batch[record].id /\ calls[k].status = "pending"

\* the rest of the batch pushed to the back of the queue
PutBackAtEnd(queue, b, idx) == queue \o SubSeq(b, idx, Len(b))

\* analyzer.ts 614: the items put back when shutdown interrupts the batch
PutBack(queue, b, idx) == SubSeq(b, idx, Len(b)) \o queue

\* analyzer.ts 626: save when there is a correction or an alternative
SaveToDb(result) ==
  ~result.skip /\ (result.hasCorrection \/ result.alternative # NULL)

\* waitForQueueDrain callers awaiting the run's promise resume when it settles
ResolveDrains(ds) == [i \in 1..Len(ds) |-> [ds[i] EXCEPT !.pc = "resolved",
                                                         !.runDone = TRUE]]

\* processQueue resumes after the await of the current record: the next
\* iteration of the loop, or the end of the run (finally) and of the callback
BatchContinuesFrom(cs, queue) ==
  IF record < Len(batch) /\ ~shutdownRequested
    THEN /\ record' = record + 1
         /\ calls' = Append(cs, NewCall(batch[record + 1].sid,
                              batch[record + 1].prompt, batch[record + 1].id, <<>>))
         /\ analysisQueue' = queue
         /\ UNCHANGED <<isProcessing, processingInterval,
                        currentProcessingPromise, batch, drains, requeued>>
    ELSE /\ analysisQueue' = IF record < Len(batch)
                               THEN PutBack(queue, batch, record + 1)
                               ELSE queue
         /\ requeued' = [i \in 1..(Len(batch) - record) |-> batch[record + i].id]
         /\ calls' = cs
         /\ isProcessing' = FALSE
         /\ currentProcessingPromise' = "null"
         /\ batch' = <<>>
         /\ record' = 0
         /\ processingInterval' = ScheduleNextRun(shutdownRequested, processingInterval)
         /\ drains' = ResolveDrains(drains)

BatchContinues(cs) == BatchContinuesFrom(cs, analysisQueue)

\* a catch that puts the failed record back at the end of the queue
CatchItemErrorRequeues(queue, item) == Append(queue, item)

\* analyzer.ts 640-643: the record's catch logs the error; the record stays
\* out of the queue
CatchItemError(queue, item) == queue

\* the results executeAnalysis can return for the record awaited
BatchResults ==
  IF record > 0 THEN AnalysisResults(batch[record].prompt, Prompts) ELSE {}

\* analyzer.ts 618-643: the analysis of the record is fulfilled; a throw of
\* insertPrompt is caught by the record's own try and the loop goes on
BatchItemCompletes(result, persisted) ==
  /\ isProcessing
  /\ record > 0
  /\ result \in BatchResults
  /\ prompts' = IF SaveToDb(result)
                   THEN Persist(prompts, BatchCall, persisted) ELSE prompts
  /\ BatchContinues(Fulfil(BatchCall, result))
  /\ UNCHANGED retryVars
  /\ UNCHANGED <<sessions, sessionLastActivity, now, ticks, mode, reqs,
                 shutdownRequested, lastStore, pushed>>

BatchItemFulfilled(result) == BatchItemCompletes(result, TRUE)

BatchItemPersistFails(result) ==
  /\ SaveToDb(result)
  /\ BatchItemCompletes(result, FALSE)

BatchItemRejected ==
  /\ isProcessing
  /\ record > 0
  /\ BatchContinuesFrom(Reject(BatchCall),
                        CatchItemError(analysisQueue, batch[record]))
  /\ UNCHANGED retryVars
  /\ UNCHANGED <<sessions, sessionLastActivity, now, ticks, mode, reqs, prompts,
                 shutdownRequested, lastStore, pushed>>

StopBackgroundProcessor ==
  /\ shutdownRequested' = TRUE
  /\ processingInterval' = "null"
  /\ ~shutdownRequested \/ processingInterval # "null"
  /\ UNCHANGED retryVars
  /\ UNCHANGED <<sessions, sessionLastActivity, now, ticks, mode, reqs, calls,
                 prompts, analysisQueue, isProcessing, currentProcessingPromise,
                 batch, record, drains, histVars>>

\* waitForQueueDrain that returns without awaiting the promise
WaitForQueueDrainNoAwait(promise, processing) ==
  [pc |-> "resolved", duringRun |-> processing, runDone |-> FALSE]

\* waitForQueueDrain: the state of its caller after the call; duringRun and
\* runDone are history (a batch was in progress at the call; it has ended)
WaitForQueueDrain(promise, processing) ==
  [pc |-> IF promise = "current" THEN "waiting" ELSE "resolved",
   duringRun |-> processing, runDone |-> FALSE]

CallWaitForQueueDrain ==
  /\ Len(drains) < MaxDrains
  /\ drains' = Append(drains, WaitForQueueDrain(currentProcessingPromise, isProcessing))
  /\ UNCHANGED retryVars
  /\ UNCHANGED <<sessions, sessionLastActivity, now, ticks, mode, reqs, calls,
                 prompts, analysisQueue, isProcessing, processingInterval,
                 shutdownRequested, currentProcessingPromise, batch, record,
                 histVars>>

\* ------------------------------------------------- withRetry (claude.ts)
\* the upstream responses of one attempt: query() throws (a transient fault),
\* or it yields a text: blank, without a {...} span, with a span that is not
\* JSON, or with a span that JSON.parse accepts (parsed: the object's fields)
Fault(e) == [kind |-> "fault", error |-> e]
BlankText == [kind |-> "blank"]
PlainText == [kind |-> "plain"]
BracedText == [kind |-> "braced"]
JsonText(parsed) == [kind |-> "json", parsed |-> parsed]

Faults == {"network", "service"}
EmptyResponseError == "Claude API returned empty response"

\* the objects the upstream service may send for prompt p
ParsedObjects(p) ==
  { [skip |-> TRUE],
    <<>>,
    [hasCorrection |-> TRUE, correction |-> p, explanation |-> "note"],
    [hasCorrection |-> FALSE, alternative |-> 0 - p, explanation |-> "note"] }

Responses(p) ==
  {Fault(e) : e \in Faults} \cup {BlankText, PlainText, BracedText}
    \cup {JsonText(o) : o \in ParsedObjects(p)}

Threw(e) == [threw |-> TRUE, error |-> e, value |-> NoResult]
Returned(v) == [threw |-> FALSE, error |-> "", value |-> v]

\* parsed.k ?? default
Field(parsed, k, default) == IF k \in DOMAIN parsed THEN parsed[k] ELSE default

\* claude.ts 67-84: the text of the response, or the error thrown
QueryClaudeAI(response) ==
  IF response.kind = "fault" THEN Threw(response.error)
  ELSE IF response.kind = "blank" THEN Threw(EmptyResponseError)
  ELSE Returned(response)

\* analyzer.ts 509-557: what executeAnalysis makes of the text
ParseAnalysis(prompt, text) ==
  IF text.kind = "json"
    THEN IF Field(text.parsed, "skip", FALSE)
           THEN SkipResult(prompt)
           ELSE [skip |-> FALSE,
                 hasCorrection |-> Field(text.parsed, "hasCorrection", FALSE),
                 correction |-> Field(text.parsed, "correction", NULL),
                 explanation |-> Field(text.parsed, "explanation", ""),
                 alternative |-> Field(text.parsed, "alternative", NULL),
                 originalPrompt |-> prompt]
    ELSE ParseFailedResult(prompt)

\* executeAnalysis: one attempt, settled by the upstream response
ExecuteAnalysis(prompt, response) ==
  LET resultText == QueryClaudeAI(response)
  IN IF resultText.threw THEN resultText
     ELSE Returned(ParseAnalysis(prompt, resultText.value))

RECURSIVE Pow2(_)
Pow2(n) == IF n = 0 THEN 1 ELSE 2 * Pow2(n - 1)

Min(a, b) == IF a < b THEN a ELSE b

\* a backoff that is not capped
DelayUncapped(baseDelayMs, maxDelayMs, attempt) == baseDelayMs * Pow2(attempt)

\* claude.ts 103: the delay after the failure of attempt number attempt (from 0)
Delay(baseDelayMs, maxDelayMs, attempt) ==
  Min(baseDelayMs * Pow2(attempt), maxDelayMs)

\* a retry bound that lets one attempt too many through
HasRetriesLeftOffByOne(attempt, maxRetries) == attempt <= maxRetries

\* claude.ts 96, 102: another attempt follows the failure of this one
HasRetriesLeft(attempt, maxRetries) == attempt < maxRetries

NoRetry ==
  [status |-> "idle", prompt |-> NULL, maxRetries |-> 0, baseDelayMs |-> 0,
   maxDelayMs |-> 0, attempt |-> 0, responses |-> <<>>, outcomes |-> <<>>,
   delays |-> <<>>,
   lastError |-> "", value |-> NoResult]

\* withRetry(() => executeAnalysis(prompt, ...), options): the first attempt
\* is invoked
WithRetry(prompt, maxRetries, baseDelayMs, maxDelayMs) ==
  /\ retry.status = "idle"
  /\ retry' = [NoRetry EXCEPT !.status = "running", !.prompt = prompt,
                              !.maxRetries = maxRetries,
                              !.baseDelayMs = baseDelayMs,
                              !.maxDelayMs = maxDelayMs]
  /\ UNCHANGED coordVars

\* claude.ts 96-113: the attempt in progress settles; responses and outcomes
\* are history
AttemptSettles(response) ==
  /\ retry.status = "running"
  /\ LET out == ExecuteAnalysis(retry.prompt, response)
         seen == [retry EXCEPT !.responses = Append(@, response),
                               !.outcomes = Append(@, out)]
     IN retry' =
          IF ~out.threw
            THEN [seen EXCEPT !.status = "returned", !.value = out.value]
          ELSE IF HasRetriesLeft(retry.attempt, retry.maxRetries)
            THEN [seen EXCEPT !.status = "delaying", !.lastError = out.error,
                              !.delays = Append(@, Delay(retry.baseDelayMs,
                                                         retry.maxDelayMs,
                                                         retry.attempt))]
          ELSE [seen EXCEPT !.status = "thrown", !.lastError = out.error]
  /\ UNCHANGED coordVars

\* claude.ts 108: the backoff timer fires and the next attempt is invoked
DelayElapses ==
  /\ retry.status = "delaying"
  /\ retry' = [retry EXCEPT !.status = "running", !.attempt = @ + 1]
  /\ UNCHANGED coordVars

\* --------------------------------------- the cache under capacity pressure
\* the cache and the recency sequence of a session, empty when it has none
CacheOf(ss, sid) == IF sid \in DOMAIN ss THEN ss[sid].cache ELSE <<>>
RecentOf(ss, sid) == IF sid \in DOMAIN ss THEN ss[sid].recentPrompts ELSE <<>>

\* the number of distinct keys 1, 2, ... stored so far in a session's cache
Inserted(sid) ==
  IF sid \notin DOMAIN sessions \/ sessions[sid].cache = <<>> THEN 0
  ELSE sessions[sid].cache[Len(sessions[sid].cache)].key

MaxStores == MAX_CACHE_SIZE_PER_SESSION + 1

\* cacheResult(sid, key, result) for the next fresh key of the session
CacheStore(sid, key) ==
  /\ key = Inserted(sid) + 1
  /\ key <= MaxStores
  /\ LET stored == CacheResult(Store(sessions, sessionLastActivity), sid, key,
                               AlternativeResult(key), now)
     IN /\ sessions' = stored.sessions
        /\ sessionLastActivity' = stored.sessionLastActivity
  /\ lastStore' = MapSet(lastStore, sid, [prompt |-> key,
                                          result |-> AlternativeResult(key),
                                          time |-> now])
  /\ UNCHANGED retryVars
  /\ UNCHANGED <<now, ticks, mode, reqs, calls, prompts, queueVars, requeued, pushed>>

\* the correction results a session's cache holds
CorrectionsIn(cache) ==
  Cardinality({i \in 1..Len(cache) : cache[i].result.hasCorrection})

\* cacheResult(sid, key, result) where result corrects the fresh text key to
\* the next fresh text
CacheStoreCorrection(sid, key) ==
  /\ key = Inserted(sid) + 1
  /\ key <= MaxStores
  /\ CorrectionsIn(CacheOf(sessions, sid)) < MaxCorrections
  /\ LET stored == CacheResult(Store(sessions, sessionLastActivity), sid, key,
                               CorrectionResult(key, key + 1), now)
     IN /\ sessions' = stored.sessions
        /\ sessionLastActivity' = stored.sessionLastActivity
  /\ lastStore' = MapSet(lastStore, sid, [prompt |-> key,
                                          result |-> CorrectionResult(key, key + 1),
                                          time |-> now])
  /\ UNCHANGED retryVars
  /\ UNCHANGED <<now, ticks, mode, reqs, calls, prompts, queueVars, requeued, pushed>>

\* ------------------------------------------------------ the recency window
RecentTexts == 1..NumRecentTexts

\* the texts pushed so far are 1..MaxUsed: texts are compared for equality
\* only, so a text never seen before is taken to be the next number
MaxUsed == Cardinality({pushed[i] : i \in 1..Len(pushed)})

TextToAdd(prompt, correctedPrompt) ==
  IF correctedPrompt # NULL THEN correctedPrompt ELSE prompt

RecordPrompt(sid, prompt, correctedPrompt) ==
  /\ Len(pushed) < MaxPushes
  /\ TextToAdd(prompt, correctedPrompt) <= MaxUsed + 1
  /\ LET added == AddRecentPrompt(Store(sessions, sessionLastActivity), sid,
                                  prompt, correctedPrompt, now)
     IN /\ sessions' = added.sessions
        /\ sessionLastActivity' = added.sessionLastActivity
  /\ pushed' = <<TextToAdd(prompt, correctedPrompt)>> \o pushed
  /\ UNCHANGED retryVars
  /\ UNCHANGED <<now, ticks, mode, reqs, calls, prompts, queueVars, lastStore,
                 requeued>>

\* ---------------------------------------------------------- specifications
InitMode(m) ==
  /\ sessions = EmptyMap
  /\ sessionLastActivity = EmptyMap
  /\ now = 0
  /\ ticks = 0
  /\ mode = m
  /\ reqs = <<>>
  /\ calls = <<>>
  /\ prompts = {}
  /\ analysisQueue = <<>>
  /\ isProcessing = FALSE
  /\ processingInterval = "null"
  /\ shutdownRequested = FALSE
  /\ currentProcessingPromise = "null"
  /\ batch = <<>>
  /\ record = 0
  /\ drains = <<>>
  /\ lastStore = EmptyMap
  /\ requeued = <<>>
  /\ pushed = <<>>
  /\ retry = NoRetry

RequestNext(cap) ==
  \/ \E sid \in SessionIds, p \in Prompts : PromptRequest(sid, p, cap)
  \/ \E i \in 1..Len(reqs) :
       \E result \in RequestResults(reqs[i].prompt) :
         AnalysisFulfilled(i, result)
  \/ \E i \in 1..Len(reqs) : AnalysisRejected(i)
  \/ Sweep
  \/ \E d \in TickSteps : Tick(d)

QueueNext(cap, sids) ==
  \/ \E sid \in sids, p \in Prompts : PromptSilent(sid, p, cap)
  \/ StartBackgroundProcessor
  \/ TimerFires
  \/ \E result \in BatchResults : BatchItemFulfilled(result)
  \/ BatchItemRejected
  \/ StopBackgroundProcessor
  \/ CallWaitForQueueDrain

\* the request handler alone: config.mode stays "non-block"
InitRequests == InitMode("non-block")
NextRequests == RequestNext(MaxReqs)
SpecRequests == InitRequests /\ [][NextRequests]_vars

\* the analysis queue alone: config.mode stays "silent", one session submits
InitQueue == InitMode("silent")
NextQueue == QueueNext(MaxItems, {"s1"})
SpecQueue == InitQueue /\ [][NextQueue]_vars

\* the request handler on one session, with the clock and the sweep
NextSession ==
  \/ \E p \in Prompts : PromptRequest("s1", p, MaxSessionReqs)
  \/ \E i \in 1..Len(reqs) :
       \E result \in RequestResults(reqs[i].prompt) :
         AnalysisFulfilled(i, result)
  \/ \E i \in 1..Len(reqs) : AnalysisRejected(i)
  \/ Sweep
  \/ \E d \in TickSteps : Tick(d)
SpecSession == InitRequests /\ [][NextSession]_vars

\* the analysis of the record awaited by the run settles
BatchItemSettles ==
  \/ \E result \in BatchResults : BatchItemFulfilled(result)
  \/ BatchItemRejected

\* the analysis queue of a server that is never stopped: startup calls
\* startBackgroundProcessor (index.ts 494-500), an armed timer fires, and
\* every analysis awaited by a run settles
NextQueueFair ==
  \/ \E p \in Prompts : PromptSilent("s1", p, MaxItems)
  \/ StartBackgroundProcessor
  \/ TimerFires
  \/ \E result \in BatchResults : BatchItemFulfilled(result)
  \/ BatchItemRejected
SpecQueueFair ==
  /\ InitQueue
  /\ [][NextQueueFair]_vars
  /\ WF_vars(StartBackgroundProcessor)
  /\ WF_vars(TimerFires)
  /\ WF_vars(BatchItemSettles)

\* cacheResult alone, storing fresh keys in either session
NextCache == \E sid \in SessionIds, key \in 1..MaxStores : CacheStore(sid, key)
SpecCache == InitRequests /\ [][NextCache]_vars

\* cacheResult alone on one session, with correction and other results
NextCacheMixed ==
  \/ \E key \in 1..MaxStores : CacheStore("s1", key)
  \/ \E key \in 1..MaxStores : CacheStoreCorrection("s1", key)
SpecCacheMixed == InitRequests /\ [][NextCacheMixed]_vars

\* addRecentPrompt alone, on one session
NextRecent ==
  \E prompt \in RecentTexts, correctedPrompt \in {NULL} \cup RecentTexts :
    RecordPrompt("s1", prompt, correctedPrompt)
SpecRecent == InitRequests /\ [][NextRecent]_vars

\* one withRetry invocation around executeAnalysis
NextRetry ==
  \/ \E prompt \in Prompts, maxRetries \in RetryLimits,
        baseDelayMs \in BaseDelays, maxDelayMs \in DelayCaps :
       WithRetry(prompt, maxRetries, baseDelayMs, maxDelayMs)
  \/ \E response \in Responses(retry.prompt) : AttemptSettles(response)
  \/ DelayElapses
SpecRetry == InitRequests /\ [][NextRetry]_vars

\* the server starts in either mode
InitModes == InitMode("non-block") \/ InitMode("silent")

\* both paths on one session, with config.mode reloaded at run time and a
\* durable store whose writes may fail; the clock stands still and the
\* processor is not stopped
NextModes ==
  \/ \E p \in Prompts : PromptRequest("s1", p, MaxModeReqs)
  \/ \E i \in 1..Len(reqs) :
       \E result \in RequestResults(reqs[i].prompt) :
         AnalysisFulfilled(i, result)
  \/ \E i \in 1..Len(reqs) : AnalysisRejected(i)
  \/ \E p \in Prompts : PromptSilent("s1", p, MaxModeReqs)
  \/ StartBackgroundProcessor
  \/ TimerFires
  \/ \E result \in BatchResults : BatchItemFulfilled(result)
  \/ BatchItemRejected
  \/ ReloadConfig
  \/ \E i \in 1..Len(reqs) :
       \E result \in RequestResults(reqs[i].prompt) :
         AnalysisFulfilledPersistFails(i, result)
  \/ \E result \in BatchResults : BatchItemPersistFails(result)
SpecModes == InitModes /\ [][NextModes]_vars

\* the text both sessions submit in the two-session model
StallPrompts == {CHOOSE p \in Prompts : \A q \in Prompts : p <= q}

\* both paths on both sessions, which submit the same text, with config.mode
\* reloaded at run time; the clock stands still, the processor is not stopped
\* and every insertPrompt succeeds
NextStall ==
  \/ \E sid \in SessionIds, p \in StallPrompts :
       PromptRequest(sid, p, MaxStallReqs)
  \/ \E i \in 1..Len(reqs) :
       \E result \in RequestResults(reqs[i].prompt) :
         AnalysisFulfilled(i, result)
  \/ \E i \in 1..Len(reqs) : AnalysisRejected(i)
  \/ \E sid \in SessionIds, p \in StallPrompts :
       PromptSilent(sid, p, MaxStallReqs)
  \/ StartBackgroundProcessor
  \/ TimerFires
  \/ \E result \in BatchResults : BatchItemFulfilled(result)
  \/ BatchItemRejected
  \/ ReloadConfig
SpecStall == InitModes /\ [][NextStall]_vars

\* the whole coordinator, with config.mode reloaded at run time; every
\* upstream call is taken by its outcome and every insertPrompt succeeds
Init == InitMode("non-block") \/ InitMode("silent")
Next ==
  \/ RequestNext(MaxMixed)
  \/ QueueNext(MaxMixed, SessionIds)
  \/ ReloadConfig
Spec == Init /\ [][Next]_vars

\* ------------------------------------------------------------- claims
SameKey(i, j) == reqs[i].sid = reqs[j].sid /\ reqs[i].prompt = reqs[j].prompt

\* C1: requests for the same (session, prompt) that arrive while an earlier one
\* is still in progress issue no upstream call of their own, and all of them
\* receive the same outcome as that earlier request.
C1_Coalescing ==
  \A j \in 1..Len(reqs) : \A i \in reqs[j].during :
    /\ ~reqs[j].owner
    /\ (reqs[i].pc = "done" /\ reqs[j].pc = "done") => reqs[i].resp = reqs[j].resp

\* the upstream calls that have not settled, for one (session, prompt)
Outstanding(sid, p) ==
  {k \in 1..Len(calls) :
     calls[k].status = "pending" /\ calls[k].sid = sid /\ calls[k].prompt = p}

\* C2: at every state at most one upstream call is outstanding for each
\* (session, prompt), whichever path issued it.
C2_OneOutstandingCall ==
  \A sid \in SessionIds, p \in Prompts : Cardinality(Outstanding(sid, p)) <= 1

\* a step in which the request handler runs getCachedResult(sid, p)
IsLookup(sid, p) ==
  /\ Len(reqs') = Len(reqs) + 1
  /\ reqs'[Len(reqs')].lookup # "silent"
  /\ reqs'[Len(reqs')].sid = sid
  /\ reqs'[Len(reqs')].prompt = p

Age(sid, p) == now - sessions[sid].cache[KeyIndex(sessions[sid].cache, p)].timestamp

\* one step of the cache, seen from a lookup and from a removal
C3_Step ==
  /\ \A sid \in DOMAIN sessions : \A p \in CacheKeys(sessions[sid].cache) :
       IsLookup(sid, p) =>
         LET r == reqs'[Len(reqs')]
             e == sessions[sid].cache[KeyIndex(sessions[sid].cache, p)]
         IN /\ Age(sid, p) <= CACHE_TTL_MS =>
                 /\ r.pc = "done"
                 /\ r.resp = Success(e.result)
                 /\ sessions' = sessions
            /\ Age(sid, p) > CACHE_TTL_MS =>
                 /\ r.pc # "done"
                 /\ sid \in DOMAIN sessions'
                 /\ ~HasKey(sessions'[sid].cache, p)
  /\ \A sid \in (DOMAIN sessions) \cap (DOMAIN sessions') :
       \A p \in CacheKeys(sessions[sid].cache) \ CacheKeys(sessions'[sid].cache) :
         \/ IsLookup(sid, p) /\ Age(sid, p) > CACHE_TTL_MS
         \/ Len(sessions[sid].cache) >= MAX_CACHE_SIZE_PER_SESSION

\* C3: a lookup of an entry no older than the TTL returns the entry's result
\* and leaves the cache alone; a lookup of an entry older than the TTL is a
\* miss and deletes the entry; no other step removes an entry of a live
\* session, except an eviction at capacity.
C3_TtlExpiry == [][C3_Step]_vars

\* a request found an entry older than the TTL, which is gone
C3_Witness ==
  \E i \in 1..Len(reqs) :
    /\ reqs[i].lookup = "expired"
    /\ reqs[i].pc # "done"
    /\ reqs[i].sid \in DOMAIN sessions
    /\ ~HasKey(sessions[reqs[i].sid].cache, reqs[i].prompt)

C4_AsStated ==
  \A sid \in DOMAIN sessions :
    Inserted(sid) = MAX_CACHE_SIZE_PER_SESSION + 1 =>
      Len(sessions[sid].cache) = MAX_CACHE_SIZE_PER_SESSION - EntriesToRemove

\* C4 (amended): up to capacity nothing is evicted; the store of key
\* capacity+1 evicts the EntriesToRemove oldest keys and then inserts, leaving
\* capacity - evicted + 1 entries: the keys evicted+1 .. capacity+1, in
\* insertion order.
C4_Eviction ==
  \A sid \in DOMAIN sessions :
    LET cache == sessions[sid].cache
        n == Inserted(sid)
    IN /\ n <= MAX_CACHE_SIZE_PER_SESSION =>
            /\ Len(cache) = n
            /\ \A i \in 1..Len(cache) : cache[i].key = i
       /\ n = MAX_CACHE_SIZE_PER_SESSION + 1 =>
            /\ Len(cache) = MAX_CACHE_SIZE_PER_SESSION - EntriesToRemove + 1
            /\ \A i \in 1..Len(cache) : cache[i].key = EntriesToRemove + i

\* capacity+1 distinct keys have been stored in a session
C4_Witness ==
  \E sid \in DOMAIN sessions : Inserted(sid) = MAX_CACHE_SIZE_PER_SESSION + 1

\* the pushes that changed the sequence: a text equal to the one pushed just
\* before it is dropped (h is newest first)
RECURSIVE Collapse(_)
Collapse(h) ==
  IF Len(h) <= 1 THEN h
  ELSE IF h[1] = h[2] THEN Collapse(Tail(h))
  ELSE <<h[1]>> \o Collapse(Tail(h))

Take(h, n) == SubSeq(h, 1, IF Len(h) < n THEN Len(h) ELSE n)

Distinct(h) == Cardinality({h[i] : i \in 1..Len(h)}) = Len(h)

\* C6: the recency sequence holds at most 5 texts and is the 5 most recent
\* pushes, newest first, a push equal to the head of the sequence not counting;
\* getRecentPrompts returns it.
C6_RecencyWindow ==
  IF pushed = <<>> THEN GetRecentPrompts(sessions, "s1", NULL) = <<>>
  ELSE /\ "s1" \in DOMAIN sessions
       /\ Len(sessions["s1"].recentPrompts) <= MAX_RECENT_PROMPTS
       /\ sessions["s1"].recentPrompts = Take(Collapse(pushed), MAX_RECENT_PROMPTS)
       /\ GetRecentPrompts(sessions, "s1", NULL) = sessions["s1"].recentPrompts

\* 7 distinct texts were pushed and then the head once more: the sequence is
\* the last 5 of the 7
C6_Witness ==
  /\ Len(pushed) = 8
  /\ pushed[1] = pushed[2]
  /\ Distinct(Tail(pushed))
  /\ GetRecentPrompts(sessions, "s1", NULL) = SubSeq(pushed, 2, 6)

\* the calls of the batch run that have not settled
BatchOutstanding ==
  {k \in 1..Len(calls) : calls[k].origin # NULL /\ calls[k].status = "pending"}

\* C7: the timer is never armed while a batch run is draining, and at most
\* one batch run (one awaited upstream call) is in progress at any time.
C7_BatchNonOverlap ==
  /\ processingInterval = "armed" => ~isProcessing
  /\ Cardinality(BatchOutstanding) <= 1
  /\ isProcessing <=> Cardinality(BatchOutstanding) = 1

\* a run is draining while more items wait in the queue, and no timer is armed
C7_Witness ==
  /\ isProcessing
  /\ analysisQueue # <<>>
  /\ processingInterval = "fired"
  /\ ~shutdownRequested

Ids(items) == [i \in 1..Len(items) |-> items[i].id]

\* the items for which analyzePrompt has been invoked
Attempted == {calls[k].origin : k \in 1..Len(calls)} \ {NULL}

Enqueued == {i \in 1..Len(reqs) : reqs[i].lookup = "silent"}

\* the queued items never attempted, in the order they were enqueued
NotAttempted ==
  SelectSeq([i \in 1..Len(reqs) |-> i], LAMBDA i : i \in Enqueued \ Attempted)

\* the items waiting: the rest of the batch in progress, then the queue
Waiting ==
  IF isProcessing THEN SubSeq(batch, record + 1, Len(batch)) \o analysisQueue
  ELSE analysisQueue

\* C8: no item is lost or duplicated and the enqueue order is kept: the items
\* waiting are exactly the enqueued items never attempted, in enqueue order;
\* when no batch is in progress pendingCount is N minus the number attempted,
\* and the items a stopped batch put back are at the front of the queue.
C8_GracefulShutdown ==
  /\ Ids(Waiting) = NotAttempted
  /\ \A i \in 1..Len(Waiting) :
       Waiting[i] = QueuedPrompt(Waiting[i].id, reqs[Waiting[i].id].sid,
                                 reqs[Waiting[i].id].prompt)
  /\ ~isProcessing =>
       GetPendingQueueCount = Cardinality(Enqueued) - Cardinality(Attempted)
  /\ (shutdownRequested /\ ~isProcessing) =>
       /\ Len(requeued) <= Len(analysisQueue)
       /\ SubSeq(Ids(analysisQueue), 1, Len(requeued)) = requeued

\* stop() came during a batch, waitForQueueDrain was awaited, and the items
\* put back are ahead of an item that was not part of the batch
C8_Witness ==
  /\ shutdownRequested
  /\ ~isProcessing
  /\ requeued # <<>>
  /\ Len(analysisQueue) > Len(requeued)
  /\ \E i \in 1..Len(drains) : drains[i].duringRun /\ drains[i].pc = "resolved"

\* one step of the background processor, before and after stop()
C9_Step ==
  /\ shutdownRequested =>
       /\ shutdownRequested'
       /\ processingInterval = "null"
       /\ processingInterval' = "null"
       /\ ~isProcessing => (~isProcessing' /\ calls' = calls /\ batch' = batch)
  /\ (~shutdownRequested /\ shutdownRequested') =>
       /\ processingInterval' = "null"
       /\ UNCHANGED <<isProcessing, batch, record, calls, analysisQueue,
                      currentProcessingPromise, prompts>>
  /\ (isProcessing' /\ shutdownRequested') =>
       \E k \in 1..Len(calls') :
         calls'[k].origin = batch'[record'].id /\ calls'[k].status = "pending"

\* C9: once stop() was called the flag stays set, no timer is armed again
\* (not by a batch that finishes, not by start()), no batch run starts, and a
\* further stop() changes nothing; stop() itself leaves the batch in progress
\* and its awaited upstream call untouched.
C9_StopIsTerminal == [][C9_Step]_vars

\* stop() came during a batch; the batch has ended since and no timer is armed
\* although items wait
C9_Witness ==
  /\ shutdownRequested
  /\ ~isProcessing
  /\ processingInterval = "null"
  /\ requeued # <<>>
  /\ analysisQueue # <<>>
  /\ \A k \in 1..Len(calls) : calls[k].status # "pending"

\* C10: a waitForQueueDrain called during a batch run has not resolved before
\* that run ended; one called while no batch runs resolves at once.
C10_WaitForDrain ==
  \A i \in 1..Len(drains) :
    /\ (drains[i].duringRun /\ drains[i].pc = "resolved") => drains[i].runDone
    /\ ~drains[i].duringRun => drains[i].pc = "resolved"
    /\ drains[i].pc = "waiting" => isProcessing

\* a waitForQueueDrain called during a batch run resolved when the run ended
C10_Witness ==
  \E i \in 1..Len(drains) :
    drains[i].duringRun /\ drains[i].pc = "resolved" /\ drains[i].runDone

\* the attempts of the withRetry invocation that failed
FailedAttempts == {k \in 1..Len(retry.outcomes) : retry.outcomes[k].threw}

\* C11: withRetry invokes the operation at most maxRetries+1 times; it returns
\* the value of the first attempt that succeeds and makes no attempt after it;
\* when maxRetries+1 attempts have failed it fails with the error of the last.
C11_RetryBound ==
  LET n == Len(retry.outcomes)
  IN /\ n <= retry.maxRetries + 1
     /\ retry.status = "returned" =>
          /\ FailedAttempts = 1..(n - 1)
          /\ retry.value = retry.outcomes[n].value
     /\ retry.status = "thrown" =>
          /\ n = retry.maxRetries + 1
          /\ FailedAttempts = 1..n
          /\ retry.lastError = retry.outcomes[n].error
     /\ (n = retry.maxRetries + 1 /\ FailedAttempts = 1..n) =>
          retry.status = "thrown"
     /\ retry.status \in {"running", "delaying"} => FailedAttempts = 1..n

\* analyzePrompt's call failed after 3 attempts, the last with another error
\* than the one before
C11_Witness ==
  /\ retry.status = "thrown"
  /\ retry.maxRetries = ANALYZE_MAX_RETRIES
  /\ Len(retry.outcomes) = 3
  /\ retry.outcomes[2].error # retry.outcomes[3].error
  /\ retry.lastError = retry.outcomes[3].error

\* C12: the delay after the k-th failed attempt is min(baseDelay * 2^(k-1),
\* maxDelay) exactly; one delay follows every failed attempt but the last of
\* maxRetries+1, and none follows a success.
C12_Backoff ==
  /\ \A k \in 1..Len(retry.delays) :
       LET d == retry.baseDelayMs * 2^(k - 1)
       IN retry.delays[k] = IF d < retry.maxDelayMs THEN d ELSE retry.maxDelayMs
  /\ Len(retry.delays) =
       IF retry.status = "thrown" THEN retry.maxRetries
       ELSE Cardinality(FailedAttempts)
  /\ retry.status = "thrown" => Cardinality(FailedAttempts) = retry.maxRetries + 1

\* two failures, then a success on the third attempt, the second delay capped
C12_Witness ==
  /\ retry.status = "returned"
  /\ Len(retry.outcomes) = 3
  /\ retry.delays = <<retry.baseDelayMs, retry.maxDelayMs>>
  /\ retry.baseDelayMs * 2 > retry.maxDelayMs
  /\ retry.value = retry.outcomes[3].value

\* store ss holds the in-flight entry e = <<session, prompt, call>>
HasEntry(ss, e) ==
  /\ e[1] \in DOMAIN ss
  /\ e[2] \in DOMAIN ss[e[1]].inFlight
  /\ ss[e[1]].inFlight[e[2]] = e[3]

InFlightEntries(ss) ==
  {e \in SessionIds \X Prompts \X (1..Len(calls)) : HasEntry(ss, e)}

\* call k settles in this step
Settles(k) == calls[k].status = "pending" /\ calls'[k].status # "pending"

\* one step of the in-flight registry
C13_Step ==
  /\ \A e \in InFlightEntries(sessions) :
       /\ calls[e[3]].status = "pending"
       /\ ~HasEntry(sessions', e) => Settles(e[3])
       /\ Settles(e[3]) => ~HasEntry(sessions', e)

\* C13: an in-flight entry is removed in the step in which its own upstream
\* call settles, and in no other step; so every entry present belongs to a
\* call still outstanding and no entry is removed on behalf of another call.
C13_InFlightCleanup == [][C13_Step]_vars

\* one step in which the upstream call of a synchronous request fails
C14_Step ==
  \A i \in 1..Len(reqs) :
    (reqs[i].pc = "awaitAnalysis" /\ Settles(reqs[i].call)
       /\ calls'[reqs[i].call].status = "rejected") =>
      LET sid == reqs[i].sid
          p == reqs[i].prompt
      IN /\ \A j \in 1..Len(reqs) :
              (j = i \/ (reqs[j].pc = "awaitInFlight" /\ reqs[j].call = reqs[i].call))
                => (reqs'[j].pc = "done" /\ reqs'[j].resp = Failure)
         /\ CacheOf(sessions', sid) = CacheOf(sessions, sid)
         /\ RecentOf(sessions', sid) = RecentOf(sessions, sid)
         /\ GetInFlightRequest(sessions', sid, p) = NULL
         /\ LookupKind(sessions', sid, p, now') # "fresh"

\* C14: when the upstream call of a synchronous request fails, the request and
\* those coalesced onto it get a failure response, the cache and the recency
\* sequence are left as they were, the in-flight entry is gone, and a request
\* for the same (session, prompt) arriving next finds neither a cache entry
\* nor an in-flight entry, so it issues a new call.
C14_FailureSurfaced == [][C14_Step]_vars

\* a response text that holds no JSON object
Unparseable(response) == response.kind \in {"blank", "plain", "braced"}

\* C15: an attempt whose response cannot be parsed is the last attempt of its
\* call (it is not retried), and the call returns a skip result with an empty
\* explanation.
C15_MalformedIsSkip ==
  \A k \in 1..Len(retry.responses) :
    Unparseable(retry.responses[k]) =>
      /\ k = Len(retry.responses)
      /\ retry.status = "returned"
      /\ retry.value.skip
      /\ retry.value.explanation = ""

InFlightOf(ss, sid) == IF sid \in DOMAIN ss THEN ss[sid].inFlight ELSE EmptyMap

\* one step, seen from the silent submissions
C16_Step ==
  /\ (Len(reqs') = Len(reqs) + 1 /\ reqs'[Len(reqs')].lookup = "silent") =>
       LET r == reqs'[Len(reqs')]
       IN /\ analysisQueue' =
               analysisQueue \o <<QueuedPrompt(Len(reqs'), r.sid, r.prompt)>>
          /\ Len(analysisQueue') = GetPendingQueueCount + 1
          /\ r.pc = "done"
          /\ r.resp = Success(NoResult)
          /\ calls' = calls
          /\ \A sid \in SessionIds :
               /\ CacheOf(sessions', sid) = CacheOf(sessions, sid)
               /\ InFlightOf(sessions', sid) = InFlightOf(sessions, sid)
  /\ \A i \in 1..Len(reqs) : reqs[i].lookup = "silent" => reqs'[i] = reqs[i]

\* C16: a silent submission appends one item to the tail of the queue and is
\* answered with success in the same step; the step issues no upstream call
\* and leaves every cache and in-flight map as it was; the response of a
\* silent submission never changes afterwards, whatever becomes of its item.
C16_SilentSubmission == [][C16_Step]_vars

\* a silent submission in a session whose cache holds the result of an
\* earlier synchronous request; the analysis of its item failed later
C16_Witness ==
  \E i \in 1..Len(reqs) :
    /\ reqs[i].lookup = "silent"
    /\ reqs[i].resp = Success(NoResult)
    /\ \E k \in 1..Len(calls) : calls[k].origin = i /\ calls[k].status = "rejected"
    /\ \E j \in 1..(i - 1) :
         /\ reqs[j].owner /\ reqs[j].pc = "done" /\ reqs[j].resp.success
         /\ HasKey(CacheOf(sessions, reqs[i].sid), reqs[j].prompt)

\* one lookup step, seen from the session's last cacheResult call
C17_Step ==
  \A sid \in DOMAIN lastStore :
    (/\ IsLookup(sid, lastStore[sid].prompt)
     /\ now - lastStore[sid].time <= CACHE_TTL_MS) =>
      /\ reqs'[Len(reqs')].pc = "done"
      /\ reqs'[Len(reqs')].resp = Success(lastStore[sid].result)

\* C17: after cacheResult(c, t, o), and until the TTL has elapsed or another
\* cacheResult call was made for the session, a lookup of (c, t) returns o.
C17_RoundTrip == [][C17_Step]_vars

\* C18: a session's cache never holds more than MAX_CACHE_SIZE_PER_SESSION
\* entries, whatever results are stored.
C18_BoundedCache ==
  \A sid \in DOMAIN sessions :
    Len(sessions[sid].cache) <= MAX_CACHE_SIZE_PER_SESSION

\* the upstream call k was fulfilled with a result to be saved and no row was
\* written for it: insertPrompt threw
PersistFailed(k) ==
  /\ calls[k].status = "fulfilled"
  /\ k \notin prompts
  /\ IF calls[k].origin = NULL THEN WorthSaving(calls[k].result)
     ELSE SaveToDb(calls[k].result)

\* one step in which an analysis is fulfilled
C19_Step ==
  /\ \A i \in 1..Len(reqs) :
       (reqs[i].pc = "awaitAnalysis" /\ Settles(reqs[i].call)
          /\ calls'[reqs[i].call].status = "fulfilled") =>
         /\ reqs'[i].pc = "done"
         /\ reqs'[i].resp = Success(calls'[reqs[i].call].result)
  /\ \A k \in 1..Len(calls) :
       (/\ calls[k].origin # NULL
        /\ Settles(k)
        /\ calls'[k].status = "fulfilled"
        /\ SaveToDb(calls'[k].result)
        /\ k \notin prompts'
        /\ record < Len(batch)
        /\ ~shutdownRequested) =>
         /\ isProcessing'
         /\ batch' = batch
         /\ record' = record + 1
         /\ analysisQueue' = analysisQueue
         /\ Len(calls') = Len(calls) + 1
         /\ calls'[Len(calls')].origin = batch[record + 1].id
         /\ calls'[Len(calls')].status = "pending"

\* C19: a synchronous request whose analysis is fulfilled is answered with the
\* result whether or not the row is written; a batch record whose row cannot
\* be written does not end the run: the next record of the batch is attempted.
C19_PersistIsolated == [][C19_Step]_vars

\* a batch record whose row was not written, followed by the next record of
\* the same batch
C19_Witness ==
  /\ isProcessing
  /\ record > 1
  /\ \E k \in 1..Len(calls) :
       calls[k].origin = batch[record - 1].id /\ PersistFailed(k)
  /\ calls[BatchCall].origin = batch[record].id

\* C20: in every state, no text is a key of a session's in-flight map and of
\* that session's cache at the same time.
C20_InFlightNotCached ==
  \A sid \in DOMAIN sessions :
    (DOMAIN sessions[sid].inFlight) \cap CacheKeys(sessions[sid].cache) = {}

\* ---------------------------------------------------------------------------
\* C21: step order of a request that misses the cache and the in-flight map

\* the handler made call a, and made call b later (or not at all yet)
Made(steps, a) == \E n \in 1..Len(steps) : steps[n] = a
Before(steps, a, b) ==
  \E n \in 1..Len(steps) :
    /\ steps[n] = a
    /\ \A m \in 1..n : steps[m] # b

\* the request issued its own upstream call and has answered with its outcome
Completed(i) ==
  /\ reqs[i].owner
  /\ reqs[i].pc = "done"
  /\ reqs[i].resp.success

\* the part of the order that holds as stated: the call is issued, then
\* registered, then awaited, and every later call follows the await
IssueRegisterAwait(steps) ==
  /\ Before(steps, "analyzePrompt", "setInFlightRequest")
  /\ Before(steps, "setInFlightRequest", "await")
  /\ Before(steps, "await", "clearInFlightRequest")
  /\ Before(steps, "await", "cacheResult")
  /\ Before(steps, "await", "addRecentPrompt")

\* C21 as stated: a request that missed the cache and the in-flight map issues
\* the call, registers it, awaits it, writes the outcome to the cache and the
\* recency buffer, and only then clears the in-flight entry
C21_AsStated ==
  \A i \in 1..Len(reqs) :
    Completed(i) =>
      /\ IssueRegisterAwait(StepsOf(reqs[i], calls))
      /\ Made(StepsOf(reqs[i], calls), "clearInFlightRequest")
      /\ Before(StepsOf(reqs[i], calls), "cacheResult", "clearInFlightRequest")
      /\ Before(StepsOf(reqs[i], calls), "addRecentPrompt", "clearInFlightRequest")

\* C21 amended: a request that missed the cache and the in-flight map issues
\* the call, registers it and awaits it; once the call has settled it clears
\* the in-flight entry first and only then, when the call was fulfilled,
\* writes the outcome to the cache and after that to the recency buffer; a
\* request whose call was rejected clears the entry and writes nothing
C21_StepOrder ==
  \A i \in 1..Len(reqs) :
    /\ Completed(i) =>
         /\ IssueRegisterAwait(StepsOf(reqs[i], calls))
         /\ Made(StepsOf(reqs[i], calls), "addRecentPrompt")
         /\ Before(StepsOf(reqs[i], calls), "clearInFlightRequest", "cacheResult")
         /\ Before(StepsOf(reqs[i], calls), "cacheResult", "addRecentPrompt")
    /\ (reqs[i].owner /\ reqs[i].pc = "done" /\ ~reqs[i].resp.success) =>
         /\ Made(StepsOf(reqs[i], calls), "clearInFlightRequest")
         /\ ~Made(StepsOf(reqs[i], calls), "cacheResult")
         /\ ~Made(StepsOf(reqs[i], calls), "addRecentPrompt")
    /\ (reqs[i].owner /\ reqs[i].pc = "awaitAnalysis") =>
         /\ Before(StepsOf(reqs[i], calls), "analyzePrompt", "setInFlightRequest")
         /\ Before(StepsOf(reqs[i], calls), "setInFlightRequest", "await")
         /\ ~Made(StepsOf(reqs[i], calls), "clearInFlightRequest")
         /\ ~Made(StepsOf(reqs[i], calls), "cacheResult")

\* one request completed with its outcome in the cache, another was rejected
C21_Witness ==
  \E i, j \in 1..Len(reqs) :
    /\ Completed(i)
    /\ reqs[i].lookup = "absent"
    /\ HasKey(CacheOf(sessions, reqs[i].sid), reqs[i].prompt)
    /\ reqs[j].owner /\ reqs[j].pc = "done" /\ ~reqs[j].resp.success

\* ---------------------------------------------------------------------------
\* C22: a batch run takes the head of the queue and attempts it in order

\* the ids of the items of the run for which a call was issued, in call order
AttemptedOf(cs, b) ==
  LET issued == SelectSeq(cs, LAMBDA c : c.origin \in {b[n].id : n \in 1..Len(b)})
  IN [n \in 1..Len(issued) |-> issued[n].origin]

C22_Step ==
  /\ (~isProcessing /\ isProcessing') =>
       LET n == IF Len(analysisQueue) < QueueBatchSize
                  THEN Len(analysisQueue) ELSE QueueBatchSize
       IN /\ n > 0
          /\ batch' = SubSeq(analysisQueue, 1, n)
          /\ analysisQueue' = SubSeq(analysisQueue, n + 1, Len(analysisQueue))
          /\ record' = 1
  /\ (isProcessing /\ isProcessing') =>
       /\ batch' = batch
       /\ record' \in {record, record + 1}
       /\ \A n \in 1..Len(analysisQueue') :
            n > Len(analysisQueue) =>
              \A m \in 1..Len(batch') : batch'[m].id # analysisQueue'[n].id
  /\ isProcessing' =>
       AttemptedOf(calls', batch') = [n \in 1..record' |-> batch'[n].id]

\* C22: a run removes the first min(batchSize, queue length) items of the
\* queue in enqueue order, attempts them one at a time in that order, and
\* takes in no item enqueued after it started
C22_FifoBatch == [][C22_Step]_vars

\* a run that took fewer items than the batch size (the whole queue) is at
\* its last item while an item enqueued since waits in the queue
C22_Witness ==
  /\ isProcessing
  /\ Len(batch) < QueueBatchSize
  /\ analysisQueue # <<>>
  /\ ~shutdownRequested

\* ---------------------------------------------------------------------------
\* C23: a failed item neither ends the run nor returns to the queue

\* the analysis of the record awaited by the run is rejected in this step
BatchCallRejected ==
  /\ isProcessing
  /\ record > 0
  /\ \E k \in 1..Len(calls) :
       /\ calls[k].origin = batch[record].id
       /\ calls[k].status = "pending"
       /\ calls'[k].status = "rejected"

\* the calls issued for item id
CallsOf(cs, id) == {k \in 1..Len(cs) : cs[k].origin = id}

C23_Step ==
  /\ BatchCallRejected =>
       /\ \A n \in 1..Len(analysisQueue') :
            analysisQueue'[n].id # batch[record].id
       /\ prompts' = prompts
       /\ (record < Len(batch) /\ ~shutdownRequested) =>
            /\ isProcessing'
            /\ batch' = batch
            /\ record' = record + 1
            /\ Len(calls') = Len(calls) + 1
            /\ calls'[Len(calls')].origin = batch[record + 1].id
            /\ calls'[Len(calls')].status = "pending"
  /\ \A id \in Enqueued : Cardinality(CallsOf(calls', id)) <= 1
  /\ \A id \in Enqueued :
       CallsOf(calls', id) # {} =>
         /\ \A n \in 1..Len(analysisQueue') : analysisQueue'[n].id # id
         /\ \A n \in 1..Len(batch') : batch'[n].id = id => n <= record'

\* C23: when the analysis of an item fails, the run goes on with the next
\* item of the batch and the failed item is dropped: it does not return to
\* the queue, so no item is ever attempted twice
C23_FailureIsolated == [][C23_Step]_vars

\* the run awaits an item after the item before it in the batch has failed
C23_Witness ==
  /\ isProcessing
  /\ record > 1
  /\ ~shutdownRequested
  /\ \E k \in 1..Len(calls) :
       /\ calls[k].origin = batch[record - 1].id
       /\ calls[k].status = "rejected"
  /\ calls[BatchCall].origin = batch[record].id

\* ---------------------------------------------------------------------------
\* C24: which outcomes of a batch run reach the durable store

\* the analysis of the record awaited by the run is fulfilled in this step
BatchCallFulfilled(k) ==
  /\ k \in 1..Len(calls)
  /\ calls[k].origin # NULL
  /\ calls[k].status = "pending"
  /\ calls'[k].status = "fulfilled"

C24_Step ==
  \A k \in 1..Len(calls) :
    BatchCallFulfilled(k) =>
      /\ k \notin prompts
      /\ (k \in prompts') <=> ~calls'[k].result.skip

\* C24: in a batch run insertPrompt is invoked for an item if and only if the
\* outcome of its analysis is not skip
C24_PersistIffNotSkip == [][C24_Step]_vars

\* ---------------------------------------------------------------------------
\* C25: the idle sweep and the requests that touch a session

\* a request arrives in this step
Arrives == Len(reqs') = Len(reqs) + 1

\* the sweep removes session sid in this step
Swept(sid) == sid \in DOMAIN sessions /\ sid \notin DOMAIN sessions'

C25_Step ==
  /\ Arrives =>
       LET r == reqs'[Len(reqs')]
       IN /\ r.sid \in DOMAIN sessionLastActivity'
          /\ sessionLastActivity'[r.sid] = now
  /\ \A sid \in SessionIds :
       Swept(sid) =>
         /\ now - sessionLastActivity[sid] > SESSION_MAX_AGE_MS
         /\ \A i \in 1..Len(reqs) : reqs[i].sid = sid => reqs[i].pc = "done"

\* C25: every synchronous request updates the last-activity timestamp of its
\* session before anything else, also when it is served by a cache hit or
\* awaits a call in flight, so the sweep removes a session only when no
\* request touched it during the last 30 minutes, and never one that has a
\* request in progress
C25_SweepSafety == [][C25_Step]_vars

\* ---------------------------------------------------------------------------
\* C26: at every reachable state the sessions that have a SessionData are the
\* sessions that have a last-activity timestamp
C26_SameSessions == DOMAIN sessions = DOMAIN sessionLastActivity

\* the sweep has removed the session of one request and kept another session
C26_Witness ==
  /\ \E i \in 1..Len(reqs) : reqs[i].sid \notin DOMAIN sessions
  /\ \E j \in 1..Len(reqs) : reqs[j].sid \in DOMAIN sessions
  /\ DOMAIN sessionLastActivity # {}

\* ---------------------------------------------------------------------------
\* C27: the operations of one session leave every other session alone

\* the request handler works on session sid in this step: a request for it
\* arrives, or a call issued for it settles and its requests resume
WorksOn(sid) ==
  \/ Arrives /\ reqs'[Len(reqs')].sid = sid
  \/ \E k \in 1..Len(calls) : Settles(k) /\ calls[k].sid = sid

\* the other session is as it was
Untouched(c) ==
  /\ (c \in DOMAIN sessions) <=> (c \in DOMAIN sessions')
  /\ CacheOf(sessions', c) = CacheOf(sessions, c)
  /\ InFlightOf(sessions', c) = InFlightOf(sessions, c)
  /\ RecentOf(sessions', c) = RecentOf(sessions, c)

C27_Step ==
  /\ \A c1, c2 \in SessionIds :
       (c1 # c2 /\ WorksOn(c1)) => Untouched(c2)
  /\ Arrives =>
       LET r == reqs'[Len(reqs')]
           own == CacheOf(sessions, r.sid)
       IN /\ r.pc = "awaitInFlight" =>
               /\ calls[r.call].sid = r.sid
               /\ calls[r.call].prompt = r.prompt
          /\ (r.pc = "done" /\ r.lookup # "silent") =>
               /\ HasKey(own, r.prompt)
               /\ r.resp = Success(own[KeyIndex(own, r.prompt)].result)
          /\ (r.lookup # "silent" /\ ~HasKey(CacheOf(sessions, r.sid), r.prompt)
                /\ r.prompt \notin DOMAIN InFlightOf(sessions, r.sid)) =>
               /\ r.owner
               /\ calls'[r.call].sid = r.sid

\* C27: a lookup, store, in-flight registration or clearing, or recency
\* record on one session leaves the cache, in-flight map and recency list of
\* every other session unchanged; the same text submitted in two sessions is
\* neither coalesced nor answered from the other session's cache
C27_SessionIsolation == [][C27_Step]_vars

\* the same text is being analysed for both sessions, each by its own call
C27_Witness ==
  \E i, j \in 1..Len(reqs) :
    /\ reqs[i].sid # reqs[j].sid
    /\ reqs[i].prompt = reqs[j].prompt
    /\ reqs[i].owner /\ reqs[j].owner
    /\ reqs[i].pc = "done" /\ reqs[i].resp.success
    /\ reqs[j].pc = "awaitAnalysis"
    /\ i < j

\* ---------------------------------------------------------------------------
\* C28: a pending upstream call and the work of other sessions

\* request j is suspended on an upstream call
Suspended(j) == reqs[j].pc \in {"awaitAnalysis", "awaitInFlight"}

\* the request that issued call k
OwnerOf(k) == CHOOSE i \in 1..Len(reqs) : reqs[i].owner /\ reqs[i].call = k

\* the pending calls of the batch run
BatchPending ==
  {k \in 1..Len(calls) : calls[k].origin # NULL /\ calls[k].status = "pending"}

\* a step of the program that issues the call of queued item id and leaves
\* call k pending
StartsBeside(k, id) ==
  /\ NextStall
  /\ calls'[k].status = "pending"
  /\ \E n \in 1..Len(calls') : n > Len(calls) /\ calls'[n].origin = id

\* a step of the program that issues the call of some queued item and leaves
\* call k pending
StartsItemBeside(k) ==
  /\ NextStall
  /\ calls'[k].status = "pending"
  /\ \E n \in 1..Len(calls') : n > Len(calls) /\ calls'[n].origin # NULL

\* the queued item the processor attempts next: the next record of the run in
\* progress, or the head of the queue when the timer is armed and no run is
\* in progress
NextUp ==
  IF isProcessing
    THEN IF record < Len(batch) THEN {batch[record + 1]} ELSE {}
  ELSE IF processingInterval = "armed" /\ analysisQueue # <<>>
    THEN {analysisQueue[1]} ELSE {}

\* the synchronous path: a request can start whatever calls are pending, and
\* a suspended request waits for a call of its own session only, which can
\* settle and answer it whatever other calls are pending
SyncNeverStalled ==
  /\ \A c \in SessionIds, p \in StallPrompts :
       (mode # "silent" /\ Len(reqs) < MaxStallReqs) =>
         ENABLED PromptRequest(c, p, MaxStallReqs)
  /\ \A j \in 1..Len(reqs) :
       Suspended(j) =>
         /\ calls[reqs[j].call].sid = reqs[j].sid
         /\ calls[reqs[j].call].status = "pending"
         /\ ENABLED (/\ AnalysisFulfilled(OwnerOf(reqs[j].call),
                                          SkipResult(reqs[j].prompt))
                     /\ reqs'[j].pc = "done")

\* C28 as stated: while a call for one session is pending, the analysis of
\* another session's text can still start and complete, whether it was
\* requested synchronously or waits in the queue of the batch processor
C28_AsStated ==
  /\ SyncNeverStalled
  /\ \A k \in 1..Len(calls) : \A q \in NextUp :
       (calls[k].status = "pending" /\ calls[k].sid # q.sid) =>
         ENABLED StartsBeside(k, q.id)

\* C28 amended: a pending call stalls no synchronous request of any session;
\* the batch processor awaits its calls one at a time, so while the call of a
\* batch item is pending no other queued item, of whatever session, is
\* started before that call settles, while a pending synchronous call does
\* not keep the processor from starting the head of the queue
C28_NoStall ==
  /\ SyncNeverStalled
  /\ \A k \in BatchPending :
       /\ ~ENABLED StartsItemBeside(k)
       /\ ENABLED BatchItemRejected
  /\ \A k \in 1..Len(calls) : \A q \in NextUp :
       (calls[k].status = "pending" /\ calls[k].origin = NULL) =>
         ENABLED StartsBeside(k, q.id)

\* while the call of a batch item of one session is pending, a synchronous
\* request of the other session has started and completed
C28_Witness ==
  \E k \in BatchPending : \E j \in 1..Len(reqs) :
    /\ reqs[j].sid # calls[k].sid
    /\ reqs[j].owner
    /\ reqs[j].call > k
    /\ reqs[j].pc = "done"
    /\ reqs[j].resp.success

\* ---------------------------------------------------------------------------
\* C29: every queued item is eventually taken from the queue and attempted

\* item id waits in the intake queue
InQueue(id) == \E n \in 1..Len(analysisQueue) : analysisQueue[n].id = id

\* C29: when the processor has been started and is never stopped, every
\* analysis settles and armed timers fire, every item that enters the queue
\* is eventually removed from it and attempted, and the queue is empty again
\* and again (for good once no more items arrive)
C29_QueueLiveness ==
  /\ \A id \in 1..MaxItems : InQueue(id) ~> (id \in Attempted /\ ~InQueue(id))
  /\ []<>(GetPendingQueueCount = 0)

\* more items than one batch holds were queued, and all have been attempted
C29_Witness ==
  /\ Cardinality(Attempted) = MaxItems
  /\ MaxItems > QueueBatchSize
  /\ GetPendingQueueCount = 0
  /\ ~isProcessing
  /\ ~shutdownRequested

\* ---------------------------------------------------------------------------
\* C30: among the requests that share one upstream call only its issuer writes

\* the number of times the handler made call a
Times(steps, a) == Cardinality({n \in 1..Len(steps) : steps[n] = a})

C30_Step ==
  /\ Arrives =>
       LET r == reqs'[Len(reqs')]
       IN (r.lookup # "silent" /\ ~r.owner) =>
            /\ CacheOf(sessions', r.sid) = CacheOf(sessions, r.sid)
            /\ RecentOf(sessions', r.sid) = RecentOf(sessions, r.sid)
            /\ sessionLastActivity' = sessionLastActivity
            /\ prompts' = prompts
  /\ \A j \in 1..Len(reqs') :
       /\ (reqs'[j].lookup # "silent" /\ ~reqs'[j].owner) =>
            /\ Times(StepsOf(reqs'[j], calls'), "cacheResult") = 0
            /\ Times(StepsOf(reqs'[j], calls'), "addRecentPrompt") = 0
       /\ reqs'[j].owner =>
            /\ Times(StepsOf(reqs'[j], calls'), "cacheResult") <= 1
            /\ Times(StepsOf(reqs'[j], calls'), "addRecentPrompt") <= 1
  /\ \A k \in 1..Len(calls) :
       (calls[k].origin = NULL /\ Settles(k)) => prompts' \ prompts \subseteq {k}
  /\ (\A k \in 1..Len(calls) : ~Settles(k)) => prompts' = prompts

\* C30: of the requests coalesced onto one upstream call only the one that
\* issued the call writes the cache, pushes to the recency list and triggers
\* insertPrompt, each at most once per call; a request served from the cache
\* or by awaiting the call in flight leaves the cache, the recency list, the
\* last-activity timestamp and the durable store unchanged
C30_SingleWriter == [][C30_Step]_vars

====
